---- MODULE Spec2Model ----
(***************************************************************************)
(* Model of server.js: the three POST handlers /initiateCall, /acceptCall  *)
(* and /endCall working on the Firebase Realtime Database nodes            *)
(* 'calls_sessions/<callId>' and 'calls/<calleeId>' and on FCM.            *)
(*                                                                         *)
(* Every handler is an async function: the code between two awaits runs    *)
(* atomically, and each await (a store read, a store update, the FCM send) *)
(* is a point where other requests interleave.  Each external call either  *)
(* resolves or rejects; a rejection lands in the handler's catch block.    *)
(***************************************************************************)
EXTENDS Integers, FiniteSets, Sequences, TLC

\* Number of requests the server receives in one behaviour.
MaxReq == 2

\* JavaScript's undefined (a field missing from the request body or record).
Undefined == "<undefined>"

\* The value firebase-admin's ServerValue.TIMESTAMP placeholder resolves to;
\* the time itself is not modelled.
TIMESTAMP == "<timestamp>"

\* !v for the values of the model: undefined and the empty string are falsy.
Falsy(v) == v = Undefined \/ v = ""

\* snapshot.val() === null: nothing is stored at the path.
NoRecord == [k \in {} |-> Undefined]

IsNull(rec) == DOMAIN rec = {}

\* rec.k in JavaScript: undefined when the record has no such field.
Get(rec, k) == IF k \in DOMAIN rec THEN rec[k] ELSE Undefined

\* The mutation a handler would make had it used ref.set(fields): the
\* children not named in fields are dropped.
SetFields(rec, fields) == fields

\* ref.update(fields): writes the named children, leaves the others alone.
UpdateFields(rec, fields) ==
    [k \in DOMAIN rec \cup DOMAIN fields |->
        IF k \in DOMAIN fields THEN fields[k] ELSE rec[k]]

\* The status of the spec's state machine read off a stored record: a record
\* that no handler has written yet has no status child (Created).
StatusOf(rec) ==
    IF IsNull(rec) THEN "none"
    ELSE IF "status" \in DOMAIN rec THEN rec["status"] ELSE "created"

-----------------------------------------------------------------------------
(* The data the handlers find in the database.                             *)

CallIds == {"c1", "c2", "c3"}

\* 'calls_sessions' as the primary app provisioned it: c1 is complete, c2
\* lacks its token, c3 was never stored.
Provisioned ==
    [c \in CallIds |->
        CASE c = "c1" -> [channel |-> "ch1", token |-> "tok1"]
          [] c = "c2" -> [channel |-> "ch2", token |-> ""]
          [] OTHER    -> NoRecord]

\* 'calls/<calleeId>': the children in the order for..in visits them.  Each
\* child is an object (possibly with an fcmToken) or a primitive.
CalleeIds == {"u2", "u3", "u4"}

Calls ==
    [u \in CalleeIds |->
        CASE u = "u2" -> << [key |-> "devA", isObject |-> FALSE, fcmToken |-> Undefined],
                            [key |-> "devB", isObject |-> TRUE,  fcmToken |-> ""],
                            [key |-> "devC", isObject |-> TRUE,  fcmToken |-> "dev-abc"],
                            [key |-> "devD", isObject |-> TRUE,  fcmToken |-> "dev-xyz"] >>
          [] u = "u3" -> << [key |-> "devE", isObject |-> TRUE,  fcmToken |-> Undefined] >>
          [] OTHER    -> << >>]

-----------------------------------------------------------------------------
VARIABLES
    store,   \* calls_sessions: callId -> stored record
    req,     \* the requests: position in the handler, locals, response
    nreq,    \* number of requests received so far
    sent     \* the messages FCM accepted

vars == << store, req, nreq, sent >>

Requests == 1 .. MaxReq

NoBody == [channelName |-> Undefined, token |-> Undefined]

\* A request that has not arrived yet.
Idle ==
    [op |-> "none", pc |-> "idle",
     callId |-> Undefined, callerId |-> Undefined, calleeId |-> Undefined,
     userId |-> Undefined, role |-> Undefined,
     channelName |-> Undefined, agoraToken |-> Undefined,
     calleeDeviceId |-> Undefined, calleeDeviceToken |-> Undefined,
     code |-> 0, body |-> NoBody,
     failed |-> "none", startStatus |-> "none", before |-> {},
     calls |-> 0, attempts |-> 0]

Init ==
    /\ store = Provisioned
    /\ req = [r \in Requests |-> Idle]
    /\ nreq = 0
    /\ sent = {}

\* res.status(code).json(...): the handler is over.
Respond(q, code, body) == [q EXCEPT !.pc = "done", !.code = code, !.body = body]

\* The catch block of a handler: 500, whichever awaited call rejected.
Caught(q, what) == [Respond(q, 500, NoBody) EXCEPT !.failed = what]

\* The request has started one more external call (a store read, a store
\* update or an FCM send).
Called(q) == [q EXCEPT !.calls = @ + 1]

\* The request has handed one more message to messaging.send.
Attempted(q) == [Called(q) EXCEPT !.attempts = @ + 1]

\* The requests that have responded.
DoneReqs == {r \in Requests : req[r].pc = "done"}

\* What is recorded about a request on arrival: the status its session has
\* and the requests that were already answered.
Arrived(q, callId) ==
    [q EXCEPT !.callId = callId,
              !.startStatus = IF callId \in CallIds THEN StatusOf(store[callId]) ELSE "none",
              !.before = DoneReqs]

-----------------------------------------------------------------------------
(* POST /initiateCall                                                      *)

\* The request bodies the model sends.
InitiateInputs ==
    ((CallIds \cup {Undefined}) \X {"u1"} \X (CalleeIds \cup {Undefined}))
        \cup {<< "c1", Undefined, "u2" >>}

\* A validation that forgets callerId.
InitiateValidateNoCaller(q) ==
    IF Falsy(q.callId) \/ Falsy(q.calleeId)
    THEN Respond(q, 400, NoBody)
    ELSE [q EXCEPT !.pc = "readSession"]

\* Validation of the body, up to the first await.
InitiateValidate(q) ==
    IF Falsy(q.callId) \/ Falsy(q.callerId) \/ Falsy(q.calleeId)
    THEN Respond(q, 400, NoBody)
    ELSE [q EXCEPT !.pc = "readSession"]

\* STEP 1, after callSessionRef.once('value') resolved with data.
InitiateAfterSession(q, data) ==
    IF IsNull(data) THEN Respond(q, 404, NoBody)
    ELSE IF Falsy(Get(data, "channel")) \/ Falsy(Get(data, "token"))
         THEN Respond(q, 404, NoBody)
         ELSE [q EXCEPT !.pc = "readCallee",
                        !.channelName = Get(data, "channel"),
                        !.agoraToken = Get(data, "token")]

\* The children of calleeData the loop accepts.
HasToken(calleeData, i) ==
    calleeData[i].isObject /\ ~Falsy(calleeData[i].fcmToken)

\* A loop without the break: the last child with an fcmToken wins.
FindDeviceLast(calleeData) ==
    IF \E i \in 1 .. Len(calleeData) : HasToken(calleeData, i)
    THEN CHOOSE i \in 1 .. Len(calleeData) :
            /\ HasToken(calleeData, i)
            /\ \A j \in (i + 1) .. Len(calleeData) : ~HasToken(calleeData, j)
    ELSE 0

\* The for..in loop: the first child with an fcmToken, 0 when there is none.
FindDevice(calleeData) ==
    IF \E i \in 1 .. Len(calleeData) : HasToken(calleeData, i)
    THEN CHOOSE i \in 1 .. Len(calleeData) :
            /\ HasToken(calleeData, i)
            /\ \A j \in 1 .. (i - 1) : ~HasToken(calleeData, j)
    ELSE 0

\* STEP 2, after calleeRef.once('value') resolved with calleeData (an empty
\* sequence stands for a null snapshot).
InitiateAfterCallee(q, calleeData) ==
    IF Len(calleeData) = 0 THEN Respond(q, 404, NoBody)
    ELSE IF FindDevice(calleeData) = 0 THEN Respond(q, 404, NoBody)
         ELSE [q EXCEPT !.pc = "update",
                        !.calleeDeviceId = calleeData[FindDevice(calleeData)].key,
                        !.calleeDeviceToken = calleeData[FindDevice(calleeData)].fcmToken]

RingingFields == [status |-> "ringing", lastRingingAttempt |-> TIMESTAMP]

\* A message that names the callee where the caller belongs.
MessageFromCallee(r, q) ==
    [by |-> r, token |-> q.calleeDeviceToken, type |-> "incoming_call",
     callId |-> q.callId, callerId |-> q.calleeId,
     channelName |-> q.channelName, agoraToken |-> q.agoraToken]

\* The message handed to messaging.send; by names the sending request.
Message(r, q) ==
    [by |-> r, token |-> q.calleeDeviceToken, type |-> "incoming_call",
     callId |-> q.callId, callerId |-> q.callerId,
     channelName |-> q.channelName, agoraToken |-> q.agoraToken]

\* A handler that answers 200 without looking at the outcome of the send.
InitiateAfterSendUnchecked(q, ok) ==
    Respond(q, 200, [channelName |-> q.channelName, token |-> q.agoraToken])

\* A handler that sends again when the send rejected.
InitiateAfterSendRetry(q, ok) ==
    IF ok
    THEN Respond(q, 200, [channelName |-> q.channelName, token |-> q.agoraToken])
    ELSE q

\* After messaging.send settled: the 200 response, or the catch block.
InitiateAfterSend(q, ok) ==
    IF ok
    THEN Respond(q, 200, [channelName |-> q.channelName, token |-> q.agoraToken])
    ELSE Caught(q, "send")

ReceiveInitiate ==
    /\ nreq < MaxReq
    /\ \E in \in InitiateInputs :
          req' = [req EXCEPT ![nreq + 1] =
                    InitiateValidate(
                        [Arrived(Idle, in[1]) EXCEPT !.op = "initiate",
                                                     !.callerId = in[2],
                                                     !.calleeId = in[3]])]
    /\ nreq' = nreq + 1
    /\ UNCHANGED << store, sent >>

InitiateReadSession(r) ==
    /\ req[r].op = "initiate" /\ req[r].pc = "readSession"
    /\ \E ok \in BOOLEAN :
          req' = [req EXCEPT ![r] =
                    IF ok THEN InitiateAfterSession(Called(req[r]), store[req[r].callId])
                    ELSE Caught(Called(req[r]), "read")]
    /\ UNCHANGED << store, nreq, sent >>

InitiateReadCallee(r) ==
    /\ req[r].op = "initiate" /\ req[r].pc = "readCallee"
    /\ \E ok \in BOOLEAN :
          req' = [req EXCEPT ![r] =
                    IF ok THEN InitiateAfterCallee(Called(req[r]), Calls[req[r].calleeId])
                    ELSE Caught(Called(req[r]), "read")]
    /\ UNCHANGED << store, nreq, sent >>

\* An update that is skipped once the call was accepted (a compare-and-set).
InitiateUpdateGuarded(r) ==
    /\ req[r].op = "initiate" /\ req[r].pc = "update"
    /\ \/ /\ store' = [store EXCEPT ![req[r].callId] =
                        IF StatusOf(@) = "accepted" THEN @
                        ELSE UpdateFields(@, RingingFields)]
          /\ req' = [req EXCEPT ![r] = [Called(req[r]) EXCEPT !.pc = "send"]]
       \/ /\ req' = [req EXCEPT ![r] = Caught(Called(req[r]), "write")]
          /\ UNCHANGED store
    /\ UNCHANGED << nreq, sent >>

InitiateUpdate(r) ==
    /\ req[r].op = "initiate" /\ req[r].pc = "update"
    /\ \/ /\ store' = [store EXCEPT ![req[r].callId] = UpdateFields(@, RingingFields)]
          /\ req' = [req EXCEPT ![r] = [Called(req[r]) EXCEPT !.pc = "send"]]
       \/ /\ req' = [req EXCEPT ![r] = Caught(Called(req[r]), "write")]
          /\ UNCHANGED store
    /\ UNCHANGED << nreq, sent >>

InitiateSend(r) ==
    /\ req[r].op = "initiate" /\ req[r].pc = "send"
    /\ \E ok \in BOOLEAN :
          /\ req' = [req EXCEPT ![r] = InitiateAfterSend(Attempted(req[r]), ok)]
          /\ sent' = IF ok THEN sent \cup {Message(r, req[r])} ELSE sent
    /\ UNCHANGED << store, nreq >>

-----------------------------------------------------------------------------
(* POST /acceptCall                                                        *)

AcceptInputs == (CallIds \cup {Undefined}) \X {"u2", Undefined}

AcceptValidate(q) ==
    IF Falsy(q.callId) THEN Respond(q, 400, NoBody)
    ELSE [q EXCEPT !.pc = "readSession"]

\* A handler that accepts ringing calls only.
AcceptAfterSessionRingingOnly(q, callData) ==
    IF IsNull(callData) \/ StatusOf(callData) # "ringing" THEN Respond(q, 404, NoBody)
    ELSE IF Falsy(Get(callData, "channel")) \/ Falsy(Get(callData, "token"))
         THEN Respond(q, 404, NoBody)
         ELSE [q EXCEPT !.pc = "update",
                        !.channelName = Get(callData, "channel"),
                        !.agoraToken = Get(callData, "token")]

\* A handler that only checks that the record exists.
AcceptAfterSessionAnyRecord(q, callData) ==
    IF IsNull(callData) THEN Respond(q, 404, NoBody)
    ELSE [q EXCEPT !.pc = "update",
                   !.channelName = Get(callData, "channel"),
                   !.agoraToken = Get(callData, "token")]

AcceptAfterSession(q, callData) ==
    IF IsNull(callData) THEN Respond(q, 404, NoBody)
    ELSE IF Falsy(Get(callData, "channel")) \/ Falsy(Get(callData, "token"))
         THEN Respond(q, 404, NoBody)
         ELSE [q EXCEPT !.pc = "update",
                        !.channelName = Get(callData, "channel"),
                        !.agoraToken = Get(callData, "token")]

AcceptedFields(q) ==
    [status |-> "accepted", acceptedBy |-> q.calleeId, acceptedAt |-> TIMESTAMP]

\* A response that puts the channel name where the token belongs.
AcceptAfterUpdateWrongToken(q, ok) ==
    IF ok
    THEN Respond(q, 200, [channelName |-> q.channelName, token |-> q.channelName])
    ELSE Caught(q, "write")

\* A handler that logs a rejected update and answers 200 all the same.
AcceptAfterUpdateSwallowed(q, ok) ==
    [Respond(q, 200, [channelName |-> q.channelName, token |-> q.agoraToken])
        EXCEPT !.failed = IF ok THEN "none" ELSE "write"]

AcceptAfterUpdate(q, ok) ==
    IF ok
    THEN Respond(q, 200, [channelName |-> q.channelName, token |-> q.agoraToken])
    ELSE Caught(q, "write")

ReceiveAccept ==
    /\ nreq < MaxReq
    /\ \E in \in AcceptInputs :
          req' = [req EXCEPT ![nreq + 1] =
                    AcceptValidate(
                        [Arrived(Idle, in[1]) EXCEPT !.op = "accept",
                                                     !.calleeId = in[2]])]
    /\ nreq' = nreq + 1
    /\ UNCHANGED << store, sent >>

AcceptReadSession(r) ==
    /\ req[r].op = "accept" /\ req[r].pc = "readSession"
    /\ \E ok \in BOOLEAN :
          req' = [req EXCEPT ![r] =
                    IF ok THEN AcceptAfterSession(Called(req[r]), store[req[r].callId])
                    ELSE Caught(Called(req[r]), "read")]
    /\ UNCHANGED << store, nreq, sent >>

\* An Accept that also pushes a message once its update resolved.
AcceptUpdateNotifies(r) ==
    /\ req[r].op = "accept" /\ req[r].pc = "update"
    /\ \E ok \in BOOLEAN :
          /\ store' = IF ok
                      THEN [store EXCEPT ![req[r].callId] =
                                UpdateFields(@, AcceptedFields(req[r]))]
                      ELSE store
          /\ req' = [req EXCEPT ![r] = AcceptAfterUpdate(Called(req[r]), ok)]
          /\ sent' = IF ok THEN sent \cup {Message(r, req[r])} ELSE sent
    /\ UNCHANGED nreq

AcceptUpdate(r) ==
    /\ req[r].op = "accept" /\ req[r].pc = "update"
    /\ \E ok \in BOOLEAN :
          /\ store' = IF ok
                      THEN [store EXCEPT ![req[r].callId] =
                                UpdateFields(@, AcceptedFields(req[r]))]
                      ELSE store
          /\ req' = [req EXCEPT ![r] = AcceptAfterUpdate(Called(req[r]), ok)]
    /\ UNCHANGED << nreq, sent >>

-----------------------------------------------------------------------------
(* POST /endCall                                                           *)

EndInputs ==
    (CallIds \cup {Undefined})
        \X {<< "u2", "callee" >>, << "u1", "caller" >>, << Undefined, Undefined >>}

EndValidate(q) ==
    IF Falsy(q.callId) THEN Respond(q, 400, NoBody)
    ELSE [q EXCEPT !.pc = "readSession"]

\* A handler that refuses to end a call that is already ended.
EndAfterSessionOnce(q, callData) ==
    IF IsNull(callData) \/ StatusOf(callData) = "ended" THEN Respond(q, 404, NoBody)
    ELSE [q EXCEPT !.pc = "update"]

\* A handler that goes on to the update without looking at the snapshot.
EndAfterSessionUnchecked(q, callData) == [q EXCEPT !.pc = "update"]

EndAfterSession(q, callData) ==
    IF IsNull(callData) THEN Respond(q, 404, NoBody)
    ELSE [q EXCEPT !.pc = "update"]

\* An update that leaves out who ended the call.
EndedFieldsNoActor(q) == [status |-> "ended", endedAt |-> TIMESTAMP]

EndedFields(q) ==
    [status |-> "ended", endedBy |-> q.userId, endedRole |-> q.role,
     endedAt |-> TIMESTAMP]

\* What line 207 would store instead: callSessionRef.remove().
EndRemove(rec, q) == NoRecord

\* The write of line 206 applied to the stored record.
EndWrite(rec, q) == UpdateFields(rec, EndedFields(q))

EndAfterUpdate(q, ok) ==
    IF ok THEN Respond(q, 200, NoBody) ELSE Caught(q, "write")

ReceiveEnd ==
    /\ nreq < MaxReq
    /\ \E in \in EndInputs :
          req' = [req EXCEPT ![nreq + 1] =
                    EndValidate(
                        [Arrived(Idle, in[1]) EXCEPT !.op = "end",
                                                     !.userId = in[2][1],
                                                     !.role = in[2][2]])]
    /\ nreq' = nreq + 1
    /\ UNCHANGED << store, sent >>

EndReadSession(r) ==
    /\ req[r].op = "end" /\ req[r].pc = "readSession"
    /\ \E ok \in BOOLEAN :
          req' = [req EXCEPT ![r] =
                    IF ok THEN EndAfterSession(Called(req[r]), store[req[r].callId])
                    ELSE Caught(Called(req[r]), "read")]
    /\ UNCHANGED << store, nreq, sent >>

EndUpdate(r) ==
    /\ req[r].op = "end" /\ req[r].pc = "update"
    /\ \E ok \in BOOLEAN :
          /\ store' = IF ok
                      THEN [store EXCEPT ![req[r].callId] = EndWrite(@, req[r])]
                      ELSE store
          /\ req' = [req EXCEPT ![r] = EndAfterUpdate(Called(req[r]), ok)]
    /\ UNCHANGED << nreq, sent >>

-----------------------------------------------------------------------------
Next ==
    \/ ReceiveInitiate
    \/ ReceiveAccept
    \/ ReceiveEnd
    \/ \E r \in Requests : InitiateReadSession(r)
    \/ \E r \in Requests : InitiateReadCallee(r)
    \/ \E r \in Requests : InitiateUpdate(r)
    \/ \E r \in Requests : InitiateSend(r)
    \/ \E r \in Requests : AcceptReadSession(r)
    \/ \E r \in Requests : AcceptUpdate(r)
    \/ \E r \in Requests : EndReadSession(r)
    \/ \E r \in Requests : EndUpdate(r)

Spec == Init /\ [][Next]_vars

-----------------------------------------------------------------------------
(* Vocabulary of the properties.                                           *)

ArrivedReqs == {r \in Requests : req[r].pc # "idle"}

\* The requests other than r that address r's callId.
OthersOnCall(r) ==
    {q \in ArrivedReqs \ {r} : req[q].callId = req[r].callId}

\* Every other request on r's callId had been answered when r arrived.
Alone(r) == OthersOnCall(r) \subseteq req[r].before

\* FCM accepted the message of request r.
Dispatched(r) == \E m \in sent : m.by = r

\* The channel and token stored for callId c, as a response body.
StoredPair(c) ==
    [channelName |-> Get(store[c], "channel"), token |-> Get(store[c], "token")]

-----------------------------------------------------------------------------
\* C1: an Initiate request that answered 200 had its own ring notification
\* accepted by FCM; one whose send rejected, or that never sent, did not
\* answer 200.
C1_SuccessRequiresDispatch ==
    \A r \in Requests :
        (req[r].op = "initiate" /\ req[r].code = 200) => Dispatched(r)

C1_Witness ==
    \E r \in Requests :
        req[r].op = "initiate" /\ req[r].code = 200 /\ Dispatched(r)

\* C2: an Initiate whose send rejected, on a session that was not ringing
\* when it arrived and that no other request touched meanwhile, leaves the
\* stored status other than ringing.
C2_NoRingingAfterFailedDispatch ==
    \A r \in Requests :
        ( /\ req[r].op = "initiate"
          /\ req[r].pc = "done"
          /\ req[r].failed = "send"
          /\ req[r].startStatus # "ringing"
          /\ Alone(r) )
        => ( /\ req[r].code = 500
             /\ StatusOf(store[req[r].callId]) # "ringing" )

\* C3: an Initiate whose status write rejected still sends the notification
\* and answers 200.
C3_StatusWriteBestEffort ==
    \A r \in Requests :
        ( /\ req[r].op = "initiate"
          /\ req[r].pc = "done"
          /\ req[r].failed = "write" )
        => (req[r].code = 200 /\ Dispatched(r))

\* C4: once the stored status of a session is ended, no step of any request
\* makes it anything else.
C4_EndedIsTerminal ==
    [][\A c \in CallIds :
          StatusOf(store[c]) = "ended" => StatusOf(store'[c]) = "ended"]_vars

\* C5: an Initiate that arrived when the stored status was accepted does not
\* turn that status back into ringing.
C5_NoRingingAfterAccepted ==
    [][\A r \in Requests :
          ( /\ req[r].op = "initiate"
            /\ req[r].startStatus = "accepted"
            /\ StatusOf(store[req[r].callId]) = "accepted"
            /\ req[r].pc = "update"
            /\ req'[r].pc # "update" )
          => StatusOf(store'[req[r].callId]) # "ringing"]_vars

\* C6: the stored channel and token of every session are the provisioned
\* ones, whatever requests ran and however they ended.
C6_ChannelTokenImmutable ==
    \A c \in CallIds :
        /\ Get(store[c], "channel") = Get(Provisioned[c], "channel")
        /\ Get(store[c], "token") = Get(Provisioned[c], "token")

\* Two different handlers have written to the same session.
C6_Witness ==
    \E c \in CallIds :
        /\ "endedBy" \in DOMAIN store[c]
        /\ ("acceptedBy" \in DOMAIN store[c] \/ "lastRingingAttempt" \in DOMAIN store[c])
        /\ ~Falsy(Get(store[c], "token"))

AfterEnd(q) ==
    \E r \in req[q].before :
        req[r].op = "end" /\ req[r].code = 200 /\ req[r].callId = req[q].callId

\* An Accept that arrived after a successful End, met no store error and
\* has answered: it answered 200 with the stored pair.
AcceptAfterEndSucceeds(q) ==
    ( /\ req[q].op = "accept"
      /\ req[q].pc = "done"
      /\ req[q].failed = "none"
      /\ AfterEnd(q) )
    => (req[q].code = 200 /\ req[q].body = StoredPair(req[q].callId))

RecordsKept == \A c \in CallIds : ~IsNull(store[c]) => ~IsNull(store'[c])

\* C8 as stated: records are never deleted, and every Accept after a
\* successful End succeeds with the stored channel and token.
C8_AcceptAfterEndAlways ==
    [][RecordsKept /\ \A q \in Requests : AcceptAfterEndSucceeds(q)']_vars

\* C8 amended: the same, for sessions provisioned with a non-empty channel
\* and token.
C8_AcceptAfterEnd ==
    [][RecordsKept /\
       \A q \in Requests :
          ( /\ req'[q].callId \in CallIds
            /\ ~Falsy(Get(Provisioned[req'[q].callId], "channel"))
            /\ ~Falsy(Get(Provisioned[req'[q].callId], "token")) )
          => AcceptAfterEndSucceeds(q)']_vars

C8_Witness ==
    \E q \in Requests :
        /\ req[q].op = "accept" /\ AfterEnd(q)
        /\ req[q].code = 200
        /\ StatusOf(store[req[q].callId]) = "accepted"
        /\ "endedBy" \in DOMAIN store[req[q].callId]

\* C9: every End on an existing session that meets no store error answers
\* 200 and leaves the stored status ended, also when the session was ended
\* before.
C9_EndIdempotent ==
    [][\A r \in Requests :
          ( /\ req'[r].op = "end"
            /\ req[r].pc # "done" /\ req'[r].pc = "done"
            /\ req'[r].startStatus # "none"
            /\ req'[r].failed = "none" )
          => ( /\ req'[r].code = 200
               /\ StatusOf(store'[req'[r].callId]) = "ended" )]_vars

\* A second End answered 200 on a session a first End had ended.
C9_Witness ==
    \E r \in Requests :
        /\ req[r].op = "end" /\ req[r].code = 200
        /\ req[r].startStatus = "ended"
        /\ AfterEnd(r)
        /\ StatusOf(store[req[r].callId]) = "ended"

\* C10: when End answers 200 the store holds status ended with endedBy and
\* endedRole equal to the userId and role of that request.
C10_EndRecordsActor ==
    [][\A r \in Requests :
          ( /\ req[r].op = "end"
            /\ req[r].pc # "done"
            /\ req'[r].code = 200 )
          => ( /\ StatusOf(store'[req[r].callId]) = "ended"
               /\ Get(store'[req[r].callId], "endedBy") = req[r].userId
               /\ Get(store'[req[r].callId], "endedRole") = req[r].role )]_vars

C10_Witness ==
    \E r \in Requests :
        /\ req[r].op = "end" /\ req[r].code = 200
        /\ req[r].userId = "u2" /\ req[r].role = "callee"
        /\ Get(store[req[r].callId], "endedBy") = "u2"
        /\ Get(store[req[r].callId], "endedRole") = "callee"
        /\ StatusOf(store[req[r].callId]) = "ended"

\* The request r takes part in the step: its record changes.
Steps(r) == req'[r] # req[r]

\* C11: every message FCM accepted was sent by an Initiate request, and no
\* step of an Accept or End request, successful or failed, changes the set
\* of dispatched messages or starts a dispatch.
C11_OnlyInitiateDispatches ==
    [][ /\ \A m \in sent' : req'[m.by].op = "initiate"
        /\ \A r \in Requests :
              (Steps(r) /\ req'[r].op \in {"accept", "end"})
              => (sent' = sent /\ req'[r].attempts = 0) ]_vars

\* An Accept and an End have both answered 200 and nothing was dispatched.
C11_Witness ==
    /\ \E r \in Requests : req[r].op = "accept" /\ req[r].code = 200
    /\ \E r \in Requests : req[r].op = "end" /\ req[r].code = 200
    /\ sent = {}

RECURSIVE SumAttempts(_)
SumAttempts(S) ==
    IF S = {} THEN 0
    ELSE LET r == CHOOSE x \in S : TRUE
         IN  req[r].attempts + SumAttempts(S \ {r})

\* C12: each Initiate request hands at most one message to messaging.send,
\* the attempts number at most the Initiate requests received, and a request
\* one of whose external calls rejected has responded and starts no other.
C12_NoRetry ==
    [][ /\ \A r \in Requests :
              /\ req'[r].attempts <= 1
              /\ req'[r].failed # "none" => req'[r].pc = "done"
              /\ req[r].failed # "none" => req'[r].calls = req[r].calls
        /\ SumAttempts(Requests)'
              <= Cardinality({r \in Requests : req'[r].op = "initiate"}) ]_vars

\* One Initiate's send rejected, another request came after it, and the
\* rejected send was the only attempt of that request.
C12_Witness ==
    \E r \in Requests :
        /\ req[r].op = "initiate" /\ req[r].failed = "send"
        /\ req[r].attempts = 1 /\ req[r].calls = 4
        /\ \E q \in Requests : r \in req[q].before /\ req[q].pc = "done"

\* The body of the request has every field its handler requires.
WellFormed(q) ==
    /\ ~Falsy(q.callId)
    /\ q.op = "initiate" => (~Falsy(q.callerId) /\ ~Falsy(q.calleeId))

\* Request q addresses a callId under which nothing is stored.
OnAbsentSession(q) == q.callId \in CallIds /\ IsNull(store[q.callId])

\* Request q addresses a stored record whose channel or token is falsy.
OnIncompleteSession(q) ==
    /\ q.callId \in CallIds
    /\ ~IsNull(store[q.callId])
    /\ (Falsy(Get(store[q.callId], "channel")) \/ Falsy(Get(store[q.callId], "token")))

\* C13: no step creates a record under a callId that has none; a request on
\* such a callId sends nothing and writes nothing, and, when its body is
\* well formed and its read resolved, it answers 404.
C13_AbsentSessionNotFound ==
    [][ /\ \A c \in CallIds : IsNull(store[c]) => IsNull(store'[c])
        /\ \A r \in Requests :
              (Steps(r) /\ OnAbsentSession(req'[r]))
              => ( /\ store' = store
                   /\ sent' = sent
                   /\ req'[r].attempts = 0
                   /\ (WellFormed(req'[r]) /\ req'[r].pc = "done"
                          /\ req'[r].failed = "none") => req'[r].code = 404 ) ]_vars

\* Two different handlers answered 404 on the unprovisioned callId.
C13_Witness ==
    \E r, q \in Requests :
        /\ req[r].op = "end" /\ req[q].op \in {"initiate", "accept"}
        /\ req[r].callId = "c3" /\ req[q].callId = "c3"
        /\ req[r].code = 404 /\ req[q].code = 404
        /\ IsNull(store["c3"])

\* C14: an Initiate or Accept on a stored record whose channel or token is
\* falsy changes neither the store nor the dispatched messages, and, when
\* its body is well formed and its read resolved, it answers 404.
C14_IncompleteSessionNotFound ==
    [][ \A r \in Requests :
           ( /\ Steps(r)
             /\ req'[r].op \in {"initiate", "accept"}
             /\ OnIncompleteSession(req'[r]) )
           => ( /\ store' = store
                /\ sent' = sent
                /\ req'[r].attempts = 0
                /\ (WellFormed(req'[r]) /\ req'[r].pc = "done"
                       /\ req'[r].failed = "none") => req'[r].code = 404 ) ]_vars

\* An Initiate and an Accept answered 404 on the record without token, which
\* still has no status.
C14_Witness ==
    \E r, q \in Requests :
        /\ req[r].op = "initiate" /\ req[q].op = "accept"
        /\ req[r].callId = "c2" /\ req[q].callId = "c2"
        /\ req[r].code = 404 /\ req[q].code = 404
        /\ StatusOf(store["c2"]) = "created"
        /\ sent = {}

\* The push tokens registered under callee u that are non-empty strings,
\* with their places in registry order.
Qualifying(u) ==
    {i \in DOMAIN Calls[u] :
        Calls[u][i].isObject /\ Calls[u][i].fcmToken \notin {Undefined, ""}}

FirstToken(u) ==
    Calls[u][CHOOSE i \in Qualifying(u) : \A j \in Qualifying(u) : i <= j].fcmToken

\* The Initiate request has made its two reads and nothing else.
StoppedAtDevice(q) == q.pc = "done" /\ q.calls = 2 /\ q.failed = "none"

\* The second read of the Initiate request, of calls/<calleeId>, resolved.
CalleeReadResolved(q) == q.calls >= 2 /\ ~(q.calls = 2 /\ q.failed = "read")

\* C15: an Initiate whose callee has no registration with a non-empty push
\* token never gets past its two reads (no write, no send) and answers 404
\* after them; otherwise it does not stop there, and the token it resolved
\* and every message it sent carry the first qualifying token in registry
\* order.
C15_DeviceResolution ==
    \A r \in Requests :
        (req[r].op = "initiate" /\ req[r].calleeId \in CalleeIds)
        => IF Qualifying(req[r].calleeId) = {}
           THEN /\ req[r].calls <= 2
                /\ req[r].attempts = 0
                /\ req[r].pc \in {"readSession", "readCallee", "done"}
                /\ req[r].code # 200
                /\ ~Dispatched(r)
                /\ StoppedAtDevice(req[r]) => req[r].code = 404
           ELSE /\ ~StoppedAtDevice(req[r])
                /\ CalleeReadResolved(req[r])
                      => req[r].calleeDeviceToken = FirstToken(req[r].calleeId)
                /\ \A m \in sent :
                      m.by = r => m.token = FirstToken(req[r].calleeId)

\* A message went to the third of four registrations (the first two have no
\* usable token), and an Initiate for a callee without token answered 404.
C15_Witness ==
    /\ \E m \in sent : m.token = "dev-abc" /\ req[m.by].calleeId = "u2"
    /\ \E r \in Requests :
          /\ req[r].op = "initiate" /\ req[r].calleeId = "u3"
          /\ StoppedAtDevice(req[r]) /\ req[r].code = 404

\* C16: every dispatched message has type incoming_call, the callId and
\* callerId of the request that sent it and the channel and token stored
\* under that callId; that request answered 200 with the same pair.
C16_PayloadMatchesSession ==
    \A m \in sent :
        /\ req[m.by].op = "initiate"
        /\ m.type = "incoming_call"
        /\ m.callId = req[m.by].callId
        /\ m.callerId = req[m.by].callerId
        /\ m.channelName = Get(store[m.callId], "channel")
        /\ m.agoraToken = Get(store[m.callId], "token")
        /\ req[m.by].code = 200
        /\ req[m.by].body = [channelName |-> m.channelName, token |-> m.agoraToken]

\* The scenario of the specification: Initiate("c1", "u1", "u2").
C16_Witness ==
    \E m \in sent :
        /\ m.token = "dev-abc" /\ m.type = "incoming_call"
        /\ m.callId = "c1" /\ m.callerId = "u1"
        /\ m.channelName = "ch1" /\ m.agoraToken = "tok1"
        /\ req[m.by].body = [channelName |-> "ch1", token |-> "tok1"]

\* C17: a request whose body lacks a required field has answered 400 on
\* arrival, without a store read, a store write or a send.
C17_InvalidRequestFirst ==
    \A r \in ArrivedReqs :
        ~WellFormed(req[r])
        => ( /\ req[r].pc = "done"
             /\ req[r].code = 400
             /\ req[r].calls = 0
             /\ req[r].attempts = 0
             /\ ~Dispatched(r) )

\* An Initiate without callerId on a complete session and an End without
\* callId both answered 400, and the store is as provisioned.
C17_Witness ==
    \E r, q \in Requests :
        /\ req[r].op = "initiate" /\ req[r].callId = "c1"
        /\ req[r].callerId = Undefined /\ req[r].code = 400
        /\ req[q].op = "end" /\ req[q].callId = Undefined /\ req[q].code = 400
        /\ store = Provisioned /\ sent = {}

\* C18: a request that met a rejected store read, a rejected store update
\* in Accept or End, or a rejected send has answered 500 without channel
\* and token.
C18_DependencyFailure ==
    \A r \in Requests :
        ( \/ req[r].failed \in {"read", "send"}
          \/ (req[r].failed = "write" /\ req[r].op \in {"accept", "end"}) )
        => ( /\ req[r].pc = "done"
             /\ req[r].code = 500
             /\ req[r].body = NoBody )

\* An Accept whose update rejected answered 500, and so did an Initiate
\* whose send rejected.
C18_Witness ==
    \E r, q \in Requests :
        /\ req[r].op = "accept" /\ req[r].failed = "write" /\ req[r].code = 500
        /\ req[q].op = "initiate" /\ req[q].failed = "send" /\ req[q].code = 500

\* The status each handler writes.
WrittenStatus(op) ==
    CASE op = "initiate" -> "ringing"
      [] op = "accept"   -> "accepted"
      [] op = "end"      -> "ended"

\* Neither of the two requests had been answered when the other arrived.
Overlap(r, q) ==
    /\ r # q /\ {r, q} \subseteq ArrivedReqs
    /\ req[r].callId = req[q].callId
    /\ r \notin req[q].before /\ q \notin req[r].before

\* C19: a status update that resolves leaves the stored status equal to the
\* one its handler writes, whatever the status was and whichever requests
\* are under way: the last writer wins.
C19_LastWriterWins ==
    [][\A r \in Requests :
          ( /\ req[r].pc = "update"
            /\ req'[r].pc # "update"
            /\ req'[r].failed = "none" )
          => StatusOf(store'[req[r].callId]) = WrittenStatus(req[r].op)]_vars

\* An Accept overlapping an Initiate answered 200 and the stored status is
\* ringing, with the Accept's acceptedBy still in the record.
C19_Witness ==
    \E r, q \in Requests :
        /\ req[r].op = "initiate" /\ req[q].op = "accept"
        /\ Overlap(r, q)
        /\ req[q].code = 200
        /\ StatusOf(store[req[q].callId]) = "ringing"
        /\ "acceptedBy" \in DOMAIN store[req[q].callId]

\* C20: an Accept that finishes without store error on a complete session
\* whose status is still created answers 200 with the stored channel and
\* token and leaves status accepted with acceptedBy the request's calleeId.
C20_AcceptWithoutRing ==
    [][\A r \in Requests :
          ( /\ Steps(r)
            /\ req'[r].op = "accept"
            /\ req'[r].pc = "done"
            /\ req'[r].failed = "none"
            /\ req'[r].callId \in CallIds
            /\ StatusOf(store[req'[r].callId]) = "created"
            /\ ~OnIncompleteSession(req'[r]) )
          => ( /\ req'[r].code = 200
               /\ req'[r].body = StoredPair(req'[r].callId)
               /\ StatusOf(store'[req'[r].callId]) = "accepted"
               /\ Get(store'[req'[r].callId], "acceptedBy") = req'[r].calleeId )]_vars

\* No Initiate ever arrived, and the Accept of callee u2 answered 200.
C20_Witness ==
    \E r \in Requests :
        /\ req[r].op = "accept" /\ req[r].calleeId = "u2"
        /\ req[r].startStatus = "created"
        /\ req[r].code = 200 /\ req[r].body = [channelName |-> "ch1", token |-> "tok1"]
        /\ StatusOf(store[req[r].callId]) = "accepted"
        /\ Get(store[req[r].callId], "acceptedBy") = "u2"
        /\ \A q \in Requests : req[q].op # "initiate"

====
